---- MODULE Spec2Model ----
(***************************************************************************)
(* Model of the two command-line programs of the repository:               *)
(*   reporter.py          the biomedical-only variant                      *)
(*   is_my_boss_broke.py  the combined variant (both registries)           *)
(* A string is a sequence of one-character strings.  A registry record is  *)
(* a function from field names to values; a field the registry did not     *)
(* send is absent from the function's domain, as in the parsed JSON.       *)
(***************************************************************************)
EXTENDS Integers, Sequences, FiniteSets, TLC

VARIABLES
    pc,                 \* position of the running program
    prog,               \* "none" | "reporter" | "combined": which main() runs
    args,               \* the parsed command line (argparse namespace)
    request,            \* pagination of the payload POSTed to the biomedical registry
    nih_status,         \* outcome of the biomedical registry call
    nsf_status,         \* outcome of the science registry call
    results,            \* data["results"] of the biomedical response
    awards,             \* response.award of the science response
    i,                  \* index of the loop that is running
    deduped_projects,   \* the insertion-ordered dict core -> project
    out,                \* what the run has printed, in order
    exit_status,        \* -1 while running, then the process's exit status
    proj_num,           \* argument of the last extract_core_suffix call checked alone
    extracted           \* its return value

vars == <<pc, prog, args, request, nih_status, nsf_status, results, awards, i,
          deduped_projects, out, exit_status, proj_num, extracted>>

(***************************************************************************)
(* Bounds of the model.                                                    *)
(***************************************************************************)
MaxLen == 4          \* longest identifier handed to extract_core_suffix alone
MaxResults == 3      \* most records in one biomedical response
MaxAwards == 1       \* most records in one science response

(***************************************************************************)
(* Characters and the two regular expressions of extract_core_suffix.      *)
(***************************************************************************)
Digits == {"0", "1", "2", "3", "4", "5", "6", "7", "8", "9"}

Uppers == {"A", "B", "C", "D", "E", "F", "G", "H", "I", "J", "K", "L", "M",
           "N", "O", "P", "Q", "R", "S", "T", "U", "V", "W", "X", "Y", "Z"}

\* the class [A-Z0-9] of the pattern
CoreChars == Uppers \cup Digits

DigitVal(c) ==
    CASE c = "0" -> 0 [] c = "1" -> 1 [] c = "2" -> 2 [] c = "3" -> 3
      [] c = "4" -> 4 [] c = "5" -> 5 [] c = "6" -> 6 [] c = "7" -> 7
      [] c = "8" -> 8 [] c = "9" -> 9

AllIn(s, S) == \A k \in 1..Len(s) : s[k] \in S

\* int(text) for a non-empty string of decimal digits
RECURSIVE StrToInt(_)
StrToInt(s) ==
    IF Len(s) = 0 THEN 0
    ELSE 10 * StrToInt(SubSeq(s, 1, Len(s) - 1)) + DigitVal(s[Len(s)])

\* the length of the longest prefix of s made of digits: what a greedy \d+ takes
RECURSIVE DigitRun(_)
DigitRun(s) ==
    IF Len(s) = 0 \/ s[1] \notin Digits THEN 0
    ELSE 1 + DigitRun(Tail(s))

\* re.sub(r'^\d+', '', s)
StripLeadingDigits(s) == SubSeq(s, DigitRun(s) + 1, Len(s))

\* "$" of the pattern: the end of the string, or just before a final newline
BodyOf(s) ==
    IF Len(s) > 0 /\ s[Len(s)] = "\n" THEN SubSeq(s, 1, Len(s) - 1) ELSE s

\* positions where the literal "-" of the pattern can sit: [A-Z0-9]+ before
\* it and \d+ after it, up to the end
HyphenAt(s) ==
    {h \in 1..Len(s) :
        /\ s[h] = "-"
        /\ h > 1 /\ AllIn(SubSeq(s, 1, h - 1), CoreChars)
        /\ h < Len(s) /\ AllIn(SubSeq(s, h + 1, Len(s)), Digits)}

\* re.match(r"^(?:\d+)?([A-Z0-9]+)-(\d+)$", s): the groups, or no match
\* (for ASCII text: \d of a str pattern also takes the other Unicode digits)
ReMatch(s) ==
    LET b == BodyOf(s)
        H == HyphenAt(b)
    IN  IF H = {} THEN [matched |-> FALSE]
        ELSE LET h == CHOOSE x \in H : TRUE
                 before == SubSeq(b, 1, h - 1)
                 \* (?:\d+)? is greedy and gives back one digit when it
                 \* would leave nothing for group 1
                 taken == IF DigitRun(before) = Len(before)
                          THEN Len(before) - 1
                          ELSE DigitRun(before)
             IN  [matched |-> TRUE,
                  group1  |-> SubSeq(before, taken + 1, Len(before)),
                  group2  |-> SubSeq(b, h + 1, Len(b))]

\* extract_core_suffix with a fault: the whole part before the hyphen is
\* taken as the core, leading digits included
extract_core_suffix_nostrip(s) ==
    LET b == BodyOf(s)
        H == HyphenAt(b)
    IN  IF H = {} THEN <<s, 0>>
        ELSE LET h == CHOOSE x \in H : TRUE
             IN  <<SubSeq(b, 1, h - 1), StrToInt(SubSeq(b, h + 1, Len(b)))>>

extract_core_suffix(s) ==
    LET match == ReMatch(s)
    IN  IF match.matched
        THEN <<StripLeadingDigits(match.group1), StrToInt(match.group2)>>
        ELSE <<s, 0>>

(***************************************************************************)
(* Inputs of the stand-alone check of extract_core_suffix.                 *)
(***************************************************************************)
Alphabet == {"0", "1", "A", "a", "-"}

RECURSIVE StringsOfLen(_)
StringsOfLen(n) ==
    IF n = 0 THEN {<<>>}
    ELSE {Append(s, c) : s \in StringsOfLen(n - 1), c \in Alphabet}

Strings == UNION {StringsOfLen(n) : n \in 0..MaxLen}

(***************************************************************************)
(* Registry records.  Get is dict.get: the default when the key is absent. *)
(* A cost value is a JSON number [t |-> "num", v |-> n] or a JSON string   *)
(* that is not a number [t |-> "str"]; None stands for Python's None.      *)
(***************************************************************************)
None == [t |-> "none"]

Num(n) == [t |-> "num", v |-> n]

Text == [t |-> "str"]

NA == <<"N", "/", "A">>

Get(project, key, default) ==
    IF key \in DOMAIN project THEN project[key] ELSE default

Without(project, key) == [k \in DOMAIN project \ {key} |-> project[k]]

\* the one date the registries of the model send, in each registry's format
IsoDate == "2027-06-30T00:00:00Z"

UsDate == "06/30/2027"

\* a biomedical record with every field the reporters read
FullProject(num, direct, indirect) ==
    [project_num |-> num,
     award_amount |-> Num(direct + indirect),
     direct_cost_amt |-> Num(direct),
     indirect_cost_amt |-> Num(indirect),
     agency_ic_fundings |-> "NCI",
     project_start_date |-> IsoDate,
     project_end_date |-> IsoDate]

\* the records a biomedical response is made of
NihPool ==
    { FullProject(<<"A", "-", "1">>, 100000, 25000),
      FullProject(<<"A", "-", "2">>, 100000, 25000),
      FullProject(<<"2", "A", "-", "0", "2">>, 100000, 25000),
      FullProject(<<"A">>, 100000, 25000),
      Without(FullProject(<<"B", "-", "1">>, 100000, 25000), "project_num"),
      Without(FullProject(<<"B", "-", "2">>, 100000, 25000), "direct_cost_amt"),
      [FullProject(<<"B", "-", "3">>, 1234567, 25000) EXCEPT !.award_amount = Text] }

\* data["results"]: the registry numbers its records (appl_id), so two records
\* of one response are never the same object
WithIds(rs) == [k \in 1..Len(rs) |-> rs[k] @@ [appl_id |-> k]]

RECURSIVE SeqsOfLen(_, _)
SeqsOfLen(S, n) ==
    IF n = 0 THEN {<<>>}
    ELSE {Append(s, x) : s \in SeqsOfLen(S, n - 1), x \in S}

NihResponses == {WithIds(rs) : rs \in UNION {SeqsOfLen(NihPool, n) : n \in 0..MaxResults}}

\* the science registry's records
NsfPool ==
    { [id |-> "2401", estimatedTotalAmt |-> Num(500000), fundsObligatedAmt |-> Num(250000),
       startDate |-> UsDate, expDate |-> UsDate],
      [id |-> "2402", fundsObligatedAmt |-> Num(250000),
       startDate |-> UsDate, expDate |-> UsDate] }

NsfResponses == UNION {SeqsOfLen(NsfPool, n) : n \in 0..MaxAwards}

Outcomes == {"ok", "http_error", "transport_error", "parse_error"}

(***************************************************************************)
(* Deduplication: the body of the loop of reporter.py's main.              *)
(***************************************************************************)
CoreOf(project) == extract_core_suffix(Get(project, "project_num", NA))[1]

SuffixOf(project) == extract_core_suffix(Get(project, "project_num", NA))[2]

\* DedupInsert with a fault: the stored record is replaced on suffix >= stored
DedupInsertGeq(deduped, project) ==
    LET core == CoreOf(project)
        K == {k \in 1..Len(deduped) : deduped[k].core = core}
    IN  IF K # {}
        THEN LET k == CHOOSE x \in K : TRUE
             IN  IF SuffixOf(project) >= SuffixOf(deduped[k].project)
                 THEN [deduped EXCEPT ![k].project = project]
                 ELSE deduped
        ELSE Append(deduped, [core |-> core, project |-> project])

\* DedupInsert with a fault: a record of a known core never replaces the stored one
DedupInsertKeepFirst(deduped, project) ==
    LET core == CoreOf(project)
        K == {k \in 1..Len(deduped) : deduped[k].core = core}
    IN  IF K # {} THEN deduped
        ELSE Append(deduped, [core |-> core, project |-> project])

\* deduped_projects is a dict: its keys keep their insertion order, and an
\* assignment to a present key keeps the key's place
DedupInsert(deduped, project) ==
    LET core == CoreOf(project)
        suffix == SuffixOf(project)
        K == {k \in 1..Len(deduped) : deduped[k].core = core}
    IN  IF K # {}
        THEN LET k == CHOOSE x \in K : TRUE
                 stored_proj == deduped[k].project
                 stored_suffix == SuffixOf(stored_proj)
             IN  IF suffix > stored_suffix
                 THEN [deduped EXCEPT ![k].project = project]
                 ELSE deduped
        ELSE Append(deduped, [core |-> core, project |-> project])

(***************************************************************************)
(* Formatting.                                                             *)
(***************************************************************************)
DigitChar(d) ==
    CASE d = 0 -> "0" [] d = 1 -> "1" [] d = 2 -> "2" [] d = 3 -> "3"
      [] d = 4 -> "4" [] d = 5 -> "5" [] d = 6 -> "6" [] d = 7 -> "7"
      [] d = 8 -> "8" [] d = 9 -> "9"

\* the decimal digits of n >= 0
RECURSIVE IntToStr(_)
IntToStr(n) ==
    IF n < 10 THEN <<DigitChar(n)>>
    ELSE Append(IntToStr(n \div 10), DigitChar(n % 10))

\* the "," of the format specification: groups of three digits from the right
RECURSIVE Grouped(_)
Grouped(ds) ==
    IF Len(ds) <= 3 THEN ds
    ELSE Grouped(SubSeq(ds, 1, Len(ds) - 3)) \o <<",">> \o SubSeq(ds, Len(ds) - 2, Len(ds))

\* f"${amount:,.2f}" for an integer amount >= 0
Currency(n) == <<"$">> \o Grouped(IntToStr(n)) \o <<".", "0", "0">>

\* reporter.py: the format error of a value that is no number gives "N/A"
format_cost_reporter(amount) ==
    IF amount.t = "num" THEN Currency(amount.v) ELSE NA

\* is_my_boss_broke.py: the caller passes int(value)
format_cost(amount) == Currency(amount)

\* int(value) raises TypeError on None and ValueError on a non-numeric string
IntRaises(value) == value.t # "num"

\* indirect / direct * 100 raises TypeError unless both are numbers, and
\* ZeroDivisionError on a zero direct cost
PctRaises(indirect, direct) ==
    \/ indirect.t # "num"
    \/ direct.t # "num"
    \/ direct.v = 0

\* f"{pct:.2f}%" of indirect / direct * 100, to the nearest hundredth
PctStr(indirect, direct) ==
    LET h == (2 * indirect * 10000 + direct) \div (2 * direct)
    IN  IntToStr(h \div 100) \o <<".">> \o <<DigitChar((h % 100) \div 10), DigitChar(h % 10)>>
        \o <<"%">>

\* datetime.strptime raises ValueError on a string that is not in the format
format_nih_date_raises(date_str) == date_str # IsoDate

format_nih_date(date_str) == "June 30, 2027 12:00 AM"

format_nsf_date_raises(date_str) == date_str # UsDate

format_nsf_date(date_str) == "June 30, 2027"

Rule == [kind |-> "rule"]

Message(text) == [kind |-> "message", text |-> text]

\* a line the program prints on catching an exception
Diagnostic(text) == [kind |-> "diagnostic", text |-> text]

\* the interpreter's report of an exception nothing caught
Traceback == [kind |-> "traceback"]

\* print_project_info of reporter.py: whether it raises before printing
print_project_info_raises(project) ==
    \/ "agency_ic_fundings" \notin DOMAIN project
    \/ PctRaises(Get(project, "indirect_cost_amt", None),
                 Get(project, "direct_cost_amt", None))

\* ... and the block it prints otherwise (record: the record it renders)
print_project_info(project) ==
    [kind |-> "block", registry |-> "nih", record |-> project.appl_id,
     project_number |-> Get(project, "project_num", NA),
     start |-> Get(project, "project_start_date", "N/A"),
     end |-> Get(project, "project_end_date", "N/A"),
     total_cost |-> format_cost_reporter(Get(project, "award_amount", None)),
     direct_cost |-> format_cost_reporter(Get(project, "direct_cost_amt", None)),
     indirect_cost |-> format_cost_reporter(Get(project, "indirect_cost_amt", None)),
     indirect_cost_pct |-> PctStr(project.indirect_cost_amt.v, project.direct_cost_amt.v)]

\* one iteration of print_nih_project_info of is_my_boss_broke.py
print_nih_raises(project) ==
    \/ format_nih_date_raises(Get(project, "project_start_date", "N/A"))
    \/ format_nih_date_raises(Get(project, "project_end_date", "N/A"))
    \/ IntRaises(Get(project, "award_amount", None))
    \/ IntRaises(Get(project, "direct_cost_amt", None))
    \/ IntRaises(Get(project, "indirect_cost_amt", None))
    \/ PctRaises(Get(project, "indirect_cost_amt", None),
                 Get(project, "direct_cost_amt", None))

print_nih_block(project) ==
    [kind |-> "block", registry |-> "nih", record |-> project.appl_id,
     project_number |-> Get(project, "project_num", NA),
     start |-> format_nih_date(project.project_start_date),
     end |-> format_nih_date(project.project_end_date),
     total_cost |-> format_cost(project.award_amount.v),
     direct_cost |-> format_cost(project.direct_cost_amt.v),
     indirect_cost |-> format_cost(project.indirect_cost_amt.v),
     indirect_cost_pct |-> PctStr(project.indirect_cost_amt.v, project.direct_cost_amt.v)]

\* one iteration of print_nsf_project_info
print_nsf_raises(project) ==
    \/ format_nsf_date_raises(Get(project, "startDate", "N/A"))
    \/ format_nsf_date_raises(Get(project, "expDate", "N/A"))
    \/ IntRaises(Get(project, "estimatedTotalAmt", None))
    \/ IntRaises(Get(project, "fundsObligatedAmt", None))

print_nsf_block(project) ==
    [kind |-> "block", registry |-> "nsf", record |-> Get(project, "id", "N/A"),
     start |-> format_nsf_date(project.startDate),
     end |-> format_nsf_date(project.expDate),
     estimated_total_amt |-> format_cost(project.estimatedTotalAmt.v),
     funds_obligated_amt |-> format_cost(project.fundsObligatedAmt.v)]

(***************************************************************************)
(* The command line.  A flag is given at most once: <<>> is the flag left  *)
(* out, <<v>> the flag given with value v.                                 *)
(***************************************************************************)
CommandLines ==
    { [offset |-> <<>>, limit |-> <<>>],
      [offset |-> <<5>>, limit |-> <<>>],
      [offset |-> <<>>, limit |-> <<10>>] }

\* argparse: type=int with a default
ArgValue(flag, default) == IF flag = <<>> THEN default ELSE flag[1]

\* the pagination search_nih_reporter and search_nih put in the payload
Payload(offset, limit) == [sent |-> TRUE, offset |-> offset, limit |-> limit]

NoArgs == [offset |-> 0, limit |-> 0]
NoRequest == [sent |-> FALSE, offset |-> 0, limit |-> 0]

Init ==
    /\ pc = "start"
    /\ prog = "none"
    /\ args = NoArgs
    /\ request = NoRequest
    /\ nih_status = "not_called"
    /\ nsf_status = "not_called"
    /\ results = <<>>
    /\ awards = <<>>
    /\ i = 0
    /\ deduped_projects = <<>>
    /\ out = <<>>
    /\ exit_status = -1
    /\ proj_num = <<>>
    /\ extracted = <<<<>>, 0>>

\* one call of extract_core_suffix on an arbitrary string
ExtractCall ==
    /\ pc = "start"
    /\ pc' = "extracted"
    /\ \E s \in Strings :
        /\ proj_num' = s
        /\ extracted' = extract_core_suffix(s)
    /\ UNCHANGED <<prog, args, request, nih_status, nsf_status, results,
                   awards, i, deduped_projects, out, exit_status>>

SpecExtract == Init /\ [][ExtractCall]_vars

(***************************************************************************)
(* reporter.py: main.                                                      *)
(***************************************************************************)
Done(status) ==
    /\ pc' = "done"
    /\ exit_status' = status

\* the parser's defaults of --offset and --limit
DefaultOffset == 0
DefaultLimit == 50

\* parser.parse_args() with the three required flags given
ReporterParseArgs ==
    /\ pc = "start"
    /\ prog' = "reporter"
    /\ \E argv \in CommandLines :
        args' = [offset |-> ArgValue(argv.offset, DefaultOffset),
                 limit |-> ArgValue(argv.limit, DefaultLimit)]
    /\ pc' = "search"
    /\ UNCHANGED <<request, nih_status, nsf_status, results, awards, i,
                   deduped_projects, out, exit_status, proj_num, extracted>>

\* the call of search_nih_reporter fails; main catches it, prints and returns
ReporterSearchFails ==
    /\ pc = "search" /\ prog = "reporter"
    /\ request' = Payload(0, 50)
    /\ \E st \in Outcomes \ {"ok"} :
        /\ nih_status' = st
        /\ out' = Append(out, Diagnostic(IF st = "http_error"
                                         THEN "HTTP error occurred:"
                                         ELSE "An error occurred:"))
    /\ Done(0)
    /\ UNCHANGED <<prog, args, nsf_status, results, awards, i, deduped_projects,
                   proj_num, extracted>>

\* the call returns the parsed response
ReporterSearchOk ==
    /\ pc = "search" /\ prog = "reporter"
    /\ request' = Payload(0, 50)
    /\ nih_status' = "ok"
    /\ \E rs \in NihResponses :
        /\ results' = rs
        /\ IF rs = <<>>
           THEN /\ out' = Append(out, Message("No projects found matching the criteria."))
                /\ Done(0)
                /\ UNCHANGED <<i, deduped_projects>>
           ELSE /\ deduped_projects' = <<>>
                /\ i' = 1
                /\ pc' = "dedup"
                /\ UNCHANGED <<out, exit_status>>
    /\ UNCHANGED <<prog, args, nsf_status, awards, proj_num, extracted>>

\* one iteration of "for project in results"
ReporterDedupStep ==
    /\ pc = "dedup" /\ i <= Len(results)
    /\ deduped_projects' = DedupInsert(deduped_projects, results[i])
    /\ i' = i + 1
    /\ UNCHANGED <<pc, prog, args, request, nih_status, nsf_status, results, awards,
                   out, exit_status, proj_num, extracted>>

ReporterDedupEnd ==
    /\ pc = "dedup" /\ i > Len(results)
    /\ pc' = "print"
    /\ i' = 1
    /\ UNCHANGED <<prog, args, request, nih_status, nsf_status, results, awards,
                   deduped_projects, out, exit_status, proj_num, extracted>>

\* one iteration of "for project in deduped_projects.values()"; an exception
\* of print_project_info reaches main's "except Exception"
ReporterPrintStep ==
    /\ pc = "print" /\ i <= Len(deduped_projects)
    /\ LET project == deduped_projects[i].project
       IN  IF print_project_info_raises(project)
           THEN /\ out' = Append(out, Diagnostic("An error occurred:"))
                /\ Done(0)
                /\ UNCHANGED i
           ELSE /\ out' = out \o <<Rule, print_project_info(project)>>
                /\ i' = i + 1
                /\ UNCHANGED <<pc, exit_status>>
    /\ UNCHANGED <<prog, args, request, nih_status, nsf_status, results, awards,
                   deduped_projects, proj_num, extracted>>

\* the trailing rule line, and main returns
ReporterFinish ==
    /\ pc = "print" /\ i > Len(deduped_projects)
    /\ out' = Append(out, Rule)
    /\ Done(0)
    /\ UNCHANGED <<prog, args, request, nih_status, nsf_status, results, awards, i,
                   deduped_projects, proj_num, extracted>>

(***************************************************************************)
(* is_my_boss_broke.py: main.  Nothing catches an exception: the           *)
(* interpreter prints the traceback and the exit status is 1.              *)
(***************************************************************************)
CombinedParseArgs ==
    /\ pc = "start"
    /\ prog' = "combined"
    /\ pc' = "search_nih"
    /\ UNCHANGED <<args, request, nih_status, nsf_status, results, awards, i,
                   deduped_projects, out, exit_status, proj_num, extracted>>

CombinedSearchNihFails ==
    /\ pc = "search_nih"
    /\ request' = Payload(0, 10)
    /\ \E st \in Outcomes \ {"ok"} : nih_status' = st
    /\ out' = Append(out, Traceback)
    /\ Done(1)
    /\ UNCHANGED <<prog, args, nsf_status, results, awards, i, deduped_projects,
                   proj_num, extracted>>

CombinedSearchNihOk ==
    /\ pc = "search_nih"
    /\ request' = Payload(0, 10)
    /\ nih_status' = "ok"
    /\ \E rs \in NihResponses : results' = rs
    /\ pc' = "search_nsf"
    /\ UNCHANGED <<prog, args, nsf_status, awards, i, deduped_projects, out,
                   exit_status, proj_num, extracted>>

CombinedSearchNsfFails ==
    /\ pc = "search_nsf"
    /\ \E st \in Outcomes \ {"ok"} : nsf_status' = st
    /\ out' = Append(out, Traceback)
    /\ Done(1)
    /\ UNCHANGED <<prog, args, request, nih_status, results, awards, i,
                   deduped_projects, proj_num, extracted>>

CombinedSearchNsfOk ==
    /\ pc = "search_nsf"
    /\ nsf_status' = "ok"
    /\ \E as \in NsfResponses : awards' = as
    /\ pc' = "print_nih"
    /\ i' = 1
    /\ UNCHANGED <<prog, args, request, nih_status, results, deduped_projects, out,
                   exit_status, proj_num, extracted>>

\* one iteration of the loop of print_nih_project_info
CombinedPrintNihStep ==
    /\ pc = "print_nih" /\ i <= Len(results)
    /\ IF print_nih_raises(results[i])
       THEN /\ out' = Append(out, Traceback)
            /\ Done(1)
            /\ UNCHANGED i
       ELSE /\ out' = out \o <<Rule, print_nih_block(results[i])>>
            /\ i' = i + 1
            /\ UNCHANGED <<pc, exit_status>>
    /\ UNCHANGED <<prog, args, request, nih_status, nsf_status, results, awards,
                   deduped_projects, proj_num, extracted>>

CombinedPrintNihEnd ==
    /\ pc = "print_nih" /\ i > Len(results)
    /\ pc' = "print_nsf"
    /\ i' = 1
    /\ UNCHANGED <<prog, args, request, nih_status, nsf_status, results, awards,
                   deduped_projects, out, exit_status, proj_num, extracted>>

\* one iteration of the loop of print_nsf_project_info
CombinedPrintNsfStep ==
    /\ pc = "print_nsf" /\ i <= Len(awards)
    /\ IF print_nsf_raises(awards[i])
       THEN /\ out' = Append(out, Traceback)
            /\ Done(1)
            /\ UNCHANGED i
       ELSE /\ out' = out \o <<Rule, print_nsf_block(awards[i])>>
            /\ i' = i + 1
            /\ UNCHANGED <<pc, exit_status>>
    /\ UNCHANGED <<prog, args, request, nih_status, nsf_status, results, awards,
                   deduped_projects, proj_num, extracted>>

\* the trailing rule line, and main returns
CombinedFinish ==
    /\ pc = "print_nsf" /\ i > Len(awards)
    /\ out' = Append(out, Rule)
    /\ Done(0)
    /\ UNCHANGED <<prog, args, request, nih_status, nsf_status, results, awards, i,
                   deduped_projects, proj_num, extracted>>

Next ==
    \/ ReporterParseArgs
    \/ ReporterSearchFails
    \/ ReporterSearchOk
    \/ ReporterDedupStep
    \/ ReporterDedupEnd
    \/ ReporterPrintStep
    \/ ReporterFinish
    \/ CombinedParseArgs
    \/ CombinedSearchNihFails
    \/ CombinedSearchNihOk
    \/ CombinedSearchNsfFails
    \/ CombinedSearchNsfOk
    \/ CombinedPrintNihStep
    \/ CombinedPrintNihEnd
    \/ CombinedPrintNsfStep
    \/ CombinedFinish

Spec == Init /\ [][Next]_vars

(***************************************************************************)
(* Vocabulary of the properties.                                           *)
(***************************************************************************)
Failures == Outcomes \ {"ok"}

\* the records folded so far by the deduplication loop
Seen ==
    IF pc = "dedup" THEN 1..(i - 1)
    ELSE IF pc \in {"print", "done"} THEN 1..Len(results)
    ELSE {}

SeenWithCore(core) == {j \in Seen : CoreOf(results[j]) = core}

MaxSuffix(core) ==
    CHOOSE m \in {SuffixOf(results[j]) : j \in SeenWithCore(core)} :
        \A j \in SeenWithCore(core) : SuffixOf(results[j]) <= m

Stored == {deduped_projects[k].project : k \in DOMAIN deduped_projects}

Blocks(registry) ==
    {out[k] : k \in {x \in DOMAIN out : out[x].kind = "block" /\ out[x].registry = registry}}

Printed(kind) == \E k \in DOMAIN out : out[k].kind = kind

\* the identifier is missing, or the pattern does not match it
NonMatching(project) ==
    \/ "project_num" \notin DOMAIN project
    \/ ~ReMatch(project.project_num).matched

\* C1: at every point of the deduplication loop of the biomedical-only
\* variant (before the first record, after each record, after the last), the
\* core -> record mapping holds exactly one entry for each distinct core seen
\* so far, and the record stored for a core is a seen record of that core
\* whose suffix is the largest seen for that core.
C1_OnePerCoreMaxSuffix ==
    (prog = "reporter" /\ pc = "dedup") =>
        /\ Len(deduped_projects) = Cardinality({CoreOf(results[j]) : j \in Seen})
        /\ {deduped_projects[k].core : k \in DOMAIN deduped_projects}
             = {CoreOf(results[j]) : j \in Seen}
        /\ \A k \in DOMAIN deduped_projects :
             LET e == deduped_projects[k]
             IN  /\ \E j \in SeenWithCore(e.core) : results[j] = e.project
                 /\ SuffixOf(e.project) = MaxSuffix(e.core)

\* three records of two cores are folded, and a later record has replaced the
\* first record of its core
C1_Witness ==
    /\ prog = "reporter" /\ pc = "dedup" /\ i = 4
    /\ Len(deduped_projects) = 2
    /\ \E k \in DOMAIN deduped_projects :
         /\ deduped_projects[k].core = CoreOf(results[1])
         /\ SuffixOf(deduped_projects[k].project) > SuffixOf(results[1])

\* C2: at every point of the deduplication loop, when several seen records
\* of one core carry the largest suffix of that core, the record stored for
\* the core is the first of them in the input.
C2_FirstSeenOnTie ==
    (prog = "reporter" /\ pc = "dedup") =>
        \A k \in DOMAIN deduped_projects :
            LET e == deduped_projects[k]
            IN  \A j \in SeenWithCore(e.core) :
                    SuffixOf(results[j]) = MaxSuffix(e.core)
                        => e.project.appl_id <= results[j].appl_id

\* two records of one core tie on the largest suffix, and the first is stored
C2_Witness ==
    /\ prog = "reporter" /\ pc = "dedup" /\ i > Len(results)
    /\ \E j, m \in Seen :
         /\ j < m
         /\ CoreOf(results[j]) = CoreOf(results[m])
         /\ SuffixOf(results[j]) = SuffixOf(results[m])
         /\ SuffixOf(results[j]) = MaxSuffix(CoreOf(results[j]))
         /\ results[j] \in Stored
         /\ results[m] \notin Stored

\* C3: every record whose project_identifier is missing or does not match the
\* pattern is in the deduplicated set once the results are folded.
C3_NonMatchingNeverMerged ==
    (prog = "reporter" /\ pc \in {"print", "done"}) =>
        \A j \in 1..Len(results) : NonMatching(results[j]) => results[j] \in Stored

(***************************************************************************)
(* The identifier pattern as the specification words it:                   *)
(* [optional digits][alphanumeric core]-[digits].                          *)
(***************************************************************************)
Lowers == {"a", "b", "c", "d", "e", "f", "g", "h", "i", "j", "k", "l", "m",
           "n", "o", "p", "q", "r", "s", "t", "u", "v", "w", "x", "y", "z"}

Alphanumerics == Uppers \cup Lowers \cup Digits

\* s is a non-empty run of characters of alnum, a hyphen, a non-empty run of digits
InForm(s, alnum) ==
    \E h \in 2..(Len(s) - 1) :
        /\ s[h] = "-"
        /\ AllIn(SubSeq(s, 1, h - 1), alnum)
        /\ AllIn(SubSeq(s, h + 1, Len(s)), Digits)

FirstHyphen(s) == CHOOSE h \in 1..Len(s) : s[h] = "-" /\ \A k \in 1..(h - 1) : s[k] # "-"

BeforeHyphen(s) == SubSeq(s, 1, FirstHyphen(s) - 1)

AfterHyphen(s) == SubSeq(s, FirstHyphen(s) + 1, Len(s))

\* the part before the hyphen from its first character that is no digit
WithoutLeadingDigits(s) ==
    LET N == {k \in 1..Len(s) : s[k] \notin Digits}
    IN  IF N = {} THEN <<>>
        ELSE SubSeq(s, CHOOSE k \in N : \A x \in N : k <= x, Len(s))

\* the number a digit string denotes, read from the left
RECURSIVE Denotes(_, _)
Denotes(s, acc) ==
    IF s = <<>> THEN acc ELSE Denotes(Tail(s), 10 * acc + DigitVal(Head(s)))

\* identifiers that differ from s only in one more leading digit, or only in
\* the digits after the hyphen
Variants(s) ==
    {<<d>> \o s : d \in Alphabet \cap Digits}
    \cup {BeforeHyphen(s) \o <<"-">> \o ds :
            ds \in UNION {SeqsOfLen(Alphabet \cap Digits, n) : n \in 1..2}}

ExtractsAsStated(alnum) ==
    (pc = "extracted" /\ InForm(proj_num, alnum)) =>
        /\ extracted[1] = WithoutLeadingDigits(BeforeHyphen(proj_num))
        /\ extracted[2] = Denotes(AfterHyphen(proj_num), 0)
        /\ \A v \in Variants(proj_num) : extract_core_suffix(v)[1] = extracted[1]

\* C4 as stated: on every identifier [optional digits][alphanumeric core]-[digits]
\* extract_core_suffix returns the part before the hyphen without its leading
\* digits and the number after the hyphen, and identifiers that differ only in
\* leading digits or in suffix digits have the same core.
C4_AnyAlphanumericCore == ExtractsAsStated(Alphanumerics)

\* C4, amended: the same, for a core made of upper-case letters and digits.
C4_UpperCaseCore == ExtractsAsStated(CoreChars)

\* a leading digit is dropped from the core of an identifier of the form
C4_Witness ==
    /\ pc = "extracted"
    /\ proj_num = <<"1", "A", "-", "1">>
    /\ extracted = <<<<"A">>, 1>>

\* C5: a run in which a registry call failed has printed a diagnostic and
\* ends with a non-zero exit status; a run that ends with status zero is one
\* in which no call failed.
C5_ErrorExitsNonZero ==
    pc = "done" =>
        /\ (nih_status \in Failures \/ nsf_status \in Failures)
              => (exit_status # 0 /\ (Printed("diagnostic") \/ Printed("traceback")))
        /\ exit_status = 0 => (nih_status \notin Failures /\ nsf_status \notin Failures)

\* C6: in the combined variant, when exactly one registry fails the run is
\* not aborted: the other registry is queried and succeeds, the blocks of its
\* records are printed, and the run ends normally after a diagnostic.
C6_OneRegistryFailureTolerated ==
    (prog = "combined" /\ pc = "done"
       /\ (nih_status \in Failures \/ nsf_status \in Failures)
       /\ ~(nih_status \in Failures /\ nsf_status \in Failures)) =>
        /\ nih_status \in Failures =>
              /\ nsf_status = "ok"
              /\ \A k \in DOMAIN awards : ~print_nsf_raises(awards[k]) =>
                    \E b \in Blocks("nsf") : b.record = awards[k].id
        /\ nsf_status \in Failures =>
              \A k \in DOMAIN results : ~print_nih_raises(results[k]) =>
                    \E b \in Blocks("nih") : b.record = results[k].appl_id
        /\ Printed("diagnostic")
        /\ exit_status = 0

\* the canonical biomedical records the run has to report
Canonical == IF prog = "reporter" THEN Stored ELSE {results[k] : k \in DOMAIN results}

Cost(project, key) == Get(project, key, None)

\* C7: when the registries answered and there are records to report, every
\* canonical record has its block, a cost that is missing or no number is
\* rendered "N/A", the report ends with the rule line and no exception was
\* raised.
C7_FormattingNeverAborts ==
    (pc = "done" /\ nih_status = "ok" /\ nsf_status \notin Failures /\ results # <<>>) =>
        /\ ~Printed("diagnostic") /\ ~Printed("traceback")
        /\ out # <<>> /\ out[Len(out)] = Rule
        /\ \A p \in Canonical :
             \E b \in Blocks("nih") :
                /\ b.record = p.appl_id
                /\ Cost(p, "award_amount").t # "num" => b.total_cost = NA
                /\ Cost(p, "direct_cost_amt").t # "num" => b.direct_cost = NA
                /\ Cost(p, "indirect_cost_amt").t # "num" => b.indirect_cost = NA

\* C8: a run whose registry calls succeed with no records prints "No projects
\* found matching the criteria.", prints no record block and exits with
\* status zero.
C8_ZeroResultsMessage ==
    (pc = "done" /\ nih_status = "ok" /\ results = <<>>
       /\ (prog = "combined" => (nsf_status = "ok" /\ awards = <<>>))) =>
        /\ \E k \in DOMAIN out :
              out[k] = Message("No projects found matching the criteria.")
        /\ ~Printed("block")
        /\ exit_status = 0

\* C9: in the biomedical-only variant the offset and limit of the request
\* sent are those of the command line (0 and 50 when the flags are left out).
C9_PaginationFromCommandLine ==
    (prog = "reporter" /\ request.sent) =>
        /\ request.offset = args.offset
        /\ request.limit = args.limit

\* C10: in both variants no two biomedical record blocks printed in one run
\* have project identifiers with the same core.
C10_NoTwoBlocksOfOneCore ==
    \A a, b \in DOMAIN out :
        (/\ a < b
         /\ out[a].kind = "block" /\ out[a].registry = "nih"
         /\ out[b].kind = "block" /\ out[b].registry = "nih")
          => extract_core_suffix(out[a].project_number)[1]
               # extract_core_suffix(out[b].project_number)[1]

====
